---- MODULE Spec2Model ----
(***************************************************************************)
(* gh-taghash: the resolution-and-cache engine of pkg/resolver.            *)
(*                                                                         *)
(* The store is the git_tags table of cache.sqlite3.  GitTag embeds        *)
(* gorm.Model, so Delete is a soft delete and every query and update is    *)
(* scoped to deleted_at IS NULL; a soft-deleted row is never read again    *)
(* (Unscoped is not used anywhere), so the store holds the live rows only, *)
(* in the order of their primary key.  Times are integers (ticks).         *)
(***************************************************************************)
EXTENDS Integers, Sequences, FiniteSets, TLC

VARIABLES
    clock,      \* time.Now()
    ttl,        \* Resolver.cacheTTL
    store,      \* live rows of git_tags, ordered by id
    remote,     \* refs/tags of every repository on the remote
    pc,         \* position of the running resolve call ("idle" when none)
    call,       \* its arguments and reference time
    fetched,    \* FetchTagAndOID: the tagHash map built so far
    cursor,     \* FetchTagAndOID: the end cursor of the last page
    git,        \* values returned by the local git operations of the call
    result,     \* what the call returned
    io,         \* I/O the running call has performed
    store0,     \* the store when the running call started
    prev,       \* what came right before the running call
    inp,        \* input of a pure function under test
    out         \* its output

vars == <<clock, ttl, store, remote, pc, call, fetched, cursor, git, result,
          io, store0, prev, inp, out>>

-----------------------------------------------------------------------------
(* Bounds of the model *)

MaxTime == 1
PageLen == 1

-----------------------------------------------------------------------------
(* Strings.  A string is a sequence of characters; the named strings of    *)
(* the model stand for the sequences Text gives them.                      *)

shaLen == 40

HexChars == {"0", "1", "2", "3", "4", "5", "6", "7", "8", "9",
             "a", "b", "c", "d", "e", "f"}
SpaceChars == {" ", "\t", "\n", "\r"}

AllOf(c, n) == [i \in 1..n |-> c]

RECURSIVE TrimLeft(_)
TrimLeft(s) ==
    IF s # <<>> /\ Head(s) \in SpaceChars THEN TrimLeft(Tail(s)) ELSE s

RECURSIVE TrimRight(_)
TrimRight(s) ==
    IF s # <<>> /\ s[Len(s)] \in SpaceChars
    THEN TrimRight(SubSeq(s, 1, Len(s) - 1))
    ELSE s

TrimSpace(s) == TrimRight(TrimLeft(s))

\* The pattern without its anchors: [0-9a-f]{40} matches anywhere in s.
shaRegexp_NoAnchors(s) ==
    \E k \in 0..(Len(s) - shaLen) :
        \A i \in (k + 1)..(k + shaLen) : s[i] \in HexChars

shaRegexp(s) == Len(s) = shaLen /\ \A i \in 1..Len(s) : s[i] \in HexChars

IsSHA(s) == shaRegexp(TrimSpace(s))

-----------------------------------------------------------------------------
(* TTL policy.  time.Duration counts in int64; / truncates toward zero.    *)
(* The lifetimes of the state machine are a few ticks, far from the ends   *)
(* of the int64 range.                                                     *)

Quot(a, b) == IF a >= 0 THEN a \div b ELSE -((-a) \div b)

NewCacheTTL(gitTagTTL) ==
    [GitFileTTL     |-> gitTagTTL * 30,
     GitTagTTL      |-> gitTagTTL,
     GitAliasTagTTL |-> Quot(gitTagTTL, 8),
     QueryTTL       |-> Quot(gitTagTTL, 2)]

\* time.ParseDuration accepts zero and negative durations ("0s", "-8h").
BaseTTLs == {-8, 0, 8}

-----------------------------------------------------------------------------
(* The cache store.  A row is a GitTag:                                    *)
(*   [repo, tag, baseTag, commitHash, tagHash, expiresAt].                 *)

GitTag(repo, tag, baseTag, commitHash, tagHash, expiresAt) ==
    [repo |-> repo, tag |-> tag, baseTag |-> baseTag,
     commitHash |-> commitHash, tagHash |-> tagHash, expiresAt |-> expiresAt]

\* "? < expired_at": an entry is no longer fresh at its expiry.
whereNotExpired_Strict(now, r) == now < r.expiresAt

\* No freshness test at all.
whereNotExpired_Always(now, r) == TRUE

whereNotExpired(now, r) == now <= r.expiresAt

\* "expired_at <= ?": an entry that expires at the threshold is deleted too.
whereExpired_Inclusive(r, threshold) == r.expiresAt <= threshold

\* "expired_at < ? - 1": an entry stays one tick after it is no longer fresh.
whereExpired_Late(r, threshold) == r.expiresAt < threshold - 1

whereExpired(r, threshold) == r.expiresAt < threshold

\* Where(&GitTag{...}): a struct condition tests the non-zero fields only.
WhereStruct(r, w) ==
    \A f \in DOMAIN w : w[f] = "" \/ r[f] = w[f]

\* tx.Where(&GitTag{RepoID, Tag}).Where(whereNotExpired, now).First(&gitTag):
\* the matching row of the lowest id, or none (gorm.ErrRecordNotFound).
lookupByTag(s, repoID, tag, now) ==
    LET hits == SelectSeq(s, LAMBDA r :
                    WhereStruct(r, [repo |-> repoID, tag |-> tag])
                    /\ whereNotExpired(now, r))
    IN  IF hits = <<>> THEN <<>> ELSE <<Head(hits)>>

\* tx.Where(whereTagHash).Or(whereCommitHash).Where(whereNotExpired, now)
\*   .Find(&gitTags)
\* gorm appends the conditions to one list and writes the Or condition with
\* OR and every other one with AND:
\*   repo_id = ? AND tag_hash = ? OR (repo_id = ? AND commit_hash = ?)
\*   AND ? <= expired_at
\* and SQL's AND binds tighter than OR.
\* The lookup without its Or condition.
lookupByHash_TagHashOnly(s, repoID, hash, now) ==
    SelectSeq(s, LAMBDA r :
        WhereStruct(r, [repo |-> repoID, tagHash |-> hash])
        /\ whereNotExpired(now, r))

\* The lookup takes the first matching row, as the lookup by tag does.
lookupByHash_FirstOnly(s, repoID, hash, now) ==
    LET rows == SelectSeq(s, LAMBDA r :
                    WhereStruct(r, [repo |-> repoID, tagHash |-> hash])
                    \/ (WhereStruct(r, [repo |-> repoID, commitHash |-> hash])
                        /\ whereNotExpired(now, r)))
    IN  IF rows = <<>> THEN <<>> ELSE <<rows[1]>>

\* The tagHash condition of the lookup does not name the repository.
lookupByHash_AnyRepo(s, repoID, hash, now) ==
    SelectSeq(s, LAMBDA r :
        WhereStruct(r, [tagHash |-> hash])
        \/ (WhereStruct(r, [repo |-> repoID, commitHash |-> hash])
            /\ whereNotExpired(now, r)))

lookupByHash(s, repoID, hash, now) ==
    SelectSeq(s, LAMBDA r :
        WhereStruct(r, [repo |-> repoID, tagHash |-> hash])
        \/ (WhereStruct(r, [repo |-> repoID, commitHash |-> hash])
            /\ whereNotExpired(now, r)))

\* The update leaves the expiry of a row that exists as it was.
UpdatesRow_KeepsExpiry(r, g) ==
    [f \in DOMAIN r |-> IF f # "expiresAt" /\ g[f] # "" THEN g[f] ELSE r[f]]

\* tx.Model(&GitTag{}).Where(where).Updates(gitTag): sets the non-zero fields
\* of gitTag in every matching row.
UpdatesRow(r, g) ==
    [f \in DOMAIN r |-> IF f = "expiresAt" \/ g[f] # "" THEN g[f] ELSE r[f]]

\* The upsert creates a row whether or not one matched.
Upsert_AlwaysCreates(s, g) == Append(s, g)

\* The condition of the update does not name the repository.
Upsert_AnyRepo(s, g) ==
    LET where == [tag |-> g.tag,
                  commitHash |-> g.commitHash, tagHash |-> g.tagHash]
    IN  IF \E i \in 1..Len(s) : WhereStruct(s[i], where)
        THEN [i \in 1..Len(s) |->
                IF WhereStruct(s[i], where) THEN UpdatesRow(s[i], g) ELSE s[i]]
        ELSE Append(s, g)

\* if Updates(...).RowsAffected == 0 { Create(gitTag) }
Upsert(s, g) ==
    LET where == [repo |-> g.repo, tag |-> g.tag,
                  commitHash |-> g.commitHash, tagHash |-> g.tagHash]
    IN  IF \E i \in 1..Len(s) : WhereStruct(s[i], where)
        THEN [i \in 1..Len(s) |->
                IF WhereStruct(s[i], where) THEN UpdatesRow(s[i], g) ELSE s[i]]
        ELSE Append(s, g)

\* The delete takes the oldest expired row only.
PruneRows_OneRow(s, threshold) ==
    IF \E i \in 1..Len(s) : whereExpired(s[i], threshold)
    THEN LET k == CHOOSE i \in 1..Len(s) :
                      /\ whereExpired(s[i], threshold)
                      /\ \A j \in 1..(i - 1) : ~whereExpired(s[j], threshold)
         IN  SubSeq(s, 1, k - 1) \o SubSeq(s, k + 1, Len(s))
    ELSE s

\* tx.Model(&GitTag{}).Where(whereExpired, threshold).Delete(&GitTag{})
PruneRows(s, threshold) ==
    SelectSeq(s, LAMBDA r : ~whereExpired(r, threshold))

\* The clear deletes with the condition of the prune.
ClearRows_KeepsFresh(s) == SelectSeq(s, LAMBDA r : ~(r.expiresAt < clock))

\* tx.Model(&GitTag{}).Where("1 = 1").Delete(&GitTag{})
ClearRows(s) == SelectSeq(s, LAMBDA r : FALSE)

-----------------------------------------------------------------------------
(* The world outside the resolver: repositories, the refs/tags listing of  *)
(* the remote, and the local clone the git-describe executor works on.     *)

RepoA == "actions/checkout"
RepoB == "cli/cli"
Repos == {RepoA, RepoB}

Hash(commitHash, tagHash) == [CommitHash |-> commitHash, TagHash |-> tagHash]

\* An annotated tag (its own object t1 on commit c1) and a lightweight one.
Annotated == Hash("c1", "t1")
Lightweight == Hash("c2", "c2")
RemoteHashes == {Annotated, Lightweight}

\* refs/tags in the order the remote lists them.
TagOrder == <<"v1", "v1.1.0">>
RemoteTags == {TagOrder[i] : i \in 1..Len(TagOrder)}

\* The characters of the strings the model names.
Text(h) ==
    CASE h = "c1"  -> AllOf("c", shaLen - 1) \o <<"1">>
      [] h = "c2"  -> AllOf("c", shaLen - 1) \o <<"2">>
      [] h = "c3"  -> AllOf("c", shaLen - 1) \o <<"3">>
      [] h = "t1"  -> AllOf("e", shaLen - 1) \o <<"1">>
      [] h = "c1 " -> AllOf("c", shaLen - 1) \o <<"1", "\n">>
      [] h = "c1x" -> AllOf("c", shaLen - 1) \o <<"1", "0">>
      [] h = "C1"  -> AllOf("C", shaLen - 1) \o <<"1">>
      [] OTHER     -> <<>>

\* The local clone: v1 and v1.1.0 are the annotated tag t1 of commit c1, and
\* c3 is one commit past them.
RevParse(ref) ==
    CASE ref \in {"v1", "v1.1.0"} -> "t1"
      [] ref = "v1.1.0-1-gc3"     -> "c3"
      [] OTHER                    -> ""

RevList(ref) ==
    CASE ref \in {"v1", "v1.1.0"} -> "c1"
      [] ref = "v1.1.0-1-gc3"     -> "c3"
      [] OTHER                    -> ""

Describe(hash) ==
    CASE hash \in {"c1", "t1"} -> "v1.1.0"
      [] hash = "c3"           -> "v1.1.0-1-gc3"
      [] OTHER                 -> ""

DescribeAbbrev0(hash) ==
    CASE hash \in {"c1", "t1"} -> "v1.1.0"
      [] hash = "c3"           -> "v1.1.0"
      [] OTHER                 -> ""

\* Arguments of the resolve calls.
TagArgs == {"", "v1", "v1.1.0", "v1.1.0-1-gc3", "v9"}
HashArgs == {"c1", "t1", "c2", "c3", "c1 ", "c1x", "C1"}

-----------------------------------------------------------------------------
(* The state after construction: resolver.New on a fresh cache directory.  *)

NoIO == [reads |-> 0, pages |-> 0, gits |-> 0, writes |-> 0, upserts |-> 0]
NoGit == [tag |-> "", baseTag |-> "", tagHash |-> "", commitHash |-> ""]
NoResult == [err |-> "", rows |-> <<>>]

\* The arguments of a call and its reference time; ctx is the state of the
\* context.Context passed in, and atCancel the I/O done when it was canceled.
Call(op, repo, arg, now) ==
    [op |-> op, repo |-> repo, arg |-> arg, now |-> now,
     ctx |-> "live", atCancel |-> NoIO]

NoCall == Call("none", "", "", 0)
NoPrev == [kind |-> "none"]
NoMap == [t \in {} |-> Annotated]

InitialRemote ==
    [r \in Repos |->
        IF r = RepoA THEN [t \in RemoteTags |-> Annotated]
                     ELSE [t \in {"v1"} |-> Annotated]]

Init ==
    /\ clock = 0
    /\ ttl \in {NewCacheTTL(b) : b \in BaseTTLs}
    /\ store = <<>>
    /\ remote = InitialRemote
    /\ pc = "idle"
    /\ call = NoCall
    /\ fetched = NoMap
    /\ cursor = 0
    /\ git = NoGit
    /\ result = NoResult
    /\ io = NoIO
    /\ store0 = <<>>
    /\ prev = NoPrev
    /\ inp = <<>>
    /\ out = ""

PureVars == <<inp, out>>
World == <<clock, ttl, remote>>
Scratch == <<fetched, cursor, git>>

\* A call returns: the result is what the caller gets.
Finish(err, rows) ==
    /\ result' = [err |-> err, rows |-> rows]
    /\ pc' = "done"

-----------------------------------------------------------------------------
(* ResolveFromTagContext and ResolveFromHashContext up to the first lookup *)

\* The caller calls right after New or PruneCache (pc = "idle"), or right
\* after the previous call has returned (pc = "done"): then the call may be
\* the previous call again, or the hash call on a hash that the previous
\* tag call returned.
Before(op, repo, arg) ==
    IF pc = "idle" THEN prev
    ELSE IF call.op = op /\ call.repo = repo /\ call.arg = arg /\ result.err = ""
         THEN [kind |-> "same", rows |-> result.rows]
    ELSE IF /\ call.op = "tag" /\ op = "hash" /\ call.repo = repo
            /\ result.err = ""
            /\ arg \in {result.rows[1].commitHash, result.rows[1].tagHash}
         THEN [kind |-> "round", rows |-> result.rows]
         ELSE NoPrev

ResolveFromTagContext(repo, tag) ==
    /\ pc \in {"idle", "done"}
    /\ prev' = Before("tag", repo, tag)
    /\ store0' = store
    /\ io' = NoIO
    /\ fetched' = NoMap /\ cursor' = 0 /\ git' = NoGit
    /\ IF tag = ""
       THEN /\ call' = Call("tag", repo, tag, 0)
            /\ Finish("require a tag", <<>>)
       ELSE /\ call' = Call("tag", repo, tag, clock)
            /\ result' = NoResult
            /\ pc' = "lookup1"
    /\ UNCHANGED <<World, store, PureVars>>

ResolveFromHashContext(repo, hash) ==
    /\ pc \in {"idle", "done"}
    /\ prev' = Before("hash", repo, hash)
    /\ store0' = store
    /\ io' = NoIO
    /\ fetched' = NoMap /\ cursor' = 0 /\ git' = NoGit
    /\ IF ~IsSHA(Text(hash))
       THEN /\ call' = Call("hash", repo, hash, 0)
            /\ Finish("invalid SHA", <<>>)
       ELSE /\ call' = Call("hash", repo, hash, clock)
            /\ result' = NoResult
            /\ pc' = "lookup1"
    /\ UNCHANGED <<World, store, PureVars>>

\* The read-only transaction of both lookups.
Lookup(s) ==
    IF call.op = "tag"
    THEN lookupByTag(s, call.repo, call.arg, call.now)
    ELSE lookupByHash(s, call.repo, call.arg, call.now)

\* A hit extends the lifetime of the rows it returns.
FirstLookup_Touches ==
    /\ pc = "lookup1"
    /\ call.ctx = "live"
    /\ io' = [io EXCEPT !.reads = @ + 1]
    /\ IF Lookup(store) # <<>>
       THEN /\ Finish("", Lookup(store))
            /\ store' = [i \in 1..Len(store) |->
                   IF \E j \in 1..Len(Lookup(store)) : Lookup(store)[j] = store[i]
                   THEN [store[i] EXCEPT !.expiresAt = call.now + ttl.GitTagTTL]
                   ELSE store[i]]
       ELSE pc' = "fetch" /\ UNCHANGED <<result, store>>
    /\ UNCHANGED <<World, call, Scratch, store0, prev, PureVars>>

FirstLookup ==
    /\ pc = "lookup1"
    /\ call.ctx = "live"
    /\ io' = [io EXCEPT !.reads = @ + 1]
    /\ IF Lookup(store) # <<>>
       THEN Finish("", Lookup(store))
       ELSE pc' = "fetch" /\ UNCHANGED result
    /\ UNCHANGED <<World, store, call, Scratch, store0, prev, PureVars>>

-----------------------------------------------------------------------------
(* FetchTagAndOID: the paginated listing of refs/tags.  A cursor is the    *)
(* position of the last ref returned; the remote returns at most PageLen   *)
(* refs in one page, and never more than the maxPageSize asked for.        *)

maxPageSize == 100

Min(a, b) == IF a <= b THEN a ELSE b

\* Positions of the refs the remote lists after the cursor.
RefsAfter(repo, cur) ==
    SelectSeq([i \in 1..Len(TagOrder) |-> i],
              LAMBDA i : i > cur /\ TagOrder[i] \in DOMAIN remote[repo])

PageRefs(repo, cur) ==
    SubSeq(RefsAfter(repo, cur), 1,
           Min(Min(PageLen, maxPageSize), Len(RefsAfter(repo, cur))))

\* The remote is never asked for a page after the first.
HasNextPage_Never(repo, cur) == FALSE

HasNextPage(repo, cur) == Len(RefsAfter(repo, cur)) > Len(PageRefs(repo, cur))

EndCursor(repo, cur) ==
    IF PageRefs(repo, cur) = <<>> THEN cur
    ELSE PageRefs(repo, cur)[Len(PageRefs(repo, cur))]

\* node.Target.CommitResourcePath, as strings.Split(path, "/") cuts it.
CommitResourcePath(repo, commitHash) == <<"", repo, "commit", commitHash>>

\* The last segment of the path, "" for the error "invalid SHA".
extractShaFromCommitResourcePath(a) ==
    IF IsSHA(Text(a[Len(a)])) THEN a[Len(a)] ELSE ""

\* The nodes of one page: tagHash[node.Name] = Hash{TagHash: oid, CommitHash: sha}
PageNodes(repo, cur) ==
    [t \in {TagOrder[PageRefs(repo, cur)[i]] : i \in 1..Len(PageRefs(repo, cur))} |->
        Hash(extractShaFromCommitResourcePath(
                 CommitResourcePath(repo, remote[repo][t].CommitHash)),
             remote[repo][t].TagHash)]

\* A failed query is reported, and the refresh goes on with the pages it has.
QueryPage_GoesOn ==
    /\ io' = [io EXCEPT !.pages = @ + 1]
    /\ \/ /\ result' = [err |-> "error fetching tag and oid", rows |-> <<>>]
          /\ pc' = "update"
          /\ UNCHANGED <<fetched, cursor>>
       \/ LET nodes == PageNodes(call.repo, cursor) IN
          /\ fetched' = nodes @@ fetched
          /\ cursor' = EndCursor(call.repo, cursor)
          /\ pc' = IF HasNextPage(call.repo, cursor) THEN "fetchNext"
                                                     ELSE "update"
          /\ UNCHANGED result
    /\ UNCHANGED <<World, store, call, git, store0, prev, PureVars>>

\* One r.gqlClient.Query and the loop over its nodes.
QueryPage ==
    /\ io' = [io EXCEPT !.pages = @ + 1]
    /\ \/ /\ Finish("error fetching tag and oid", <<>>)
          /\ fetched' = NoMap
          /\ UNCHANGED cursor
       \/ LET nodes == PageNodes(call.repo, cursor) IN
          IF \E t \in DOMAIN nodes : nodes[t].CommitHash = ""
          THEN /\ Finish("invalid SHA", <<>>)
               /\ fetched' = NoMap
               /\ UNCHANGED cursor
          ELSE /\ fetched' = nodes @@ fetched
               /\ cursor' = EndCursor(call.repo, cursor)
               /\ pc' = IF HasNextPage(call.repo, cursor) THEN "fetchNext"
                                                          ELSE "update"
               /\ UNCHANGED result
    /\ UNCHANGED <<World, store, call, git, store0, prev, PureVars>>

FetchFirstPage == pc = "fetch" /\ QueryPage

FetchNextPage == pc = "fetchNext" /\ QueryPage

-----------------------------------------------------------------------------
(* updateCacheDB: the expiry of every fetched tag, the upserts, the prune. *)

\* The orders a range over a Go map with the keys S can take.
Orders(S) ==
    {o \in [1..Cardinality(S) -> S] : \A i, j \in DOMAIN o : o[i] = o[j] => i = j}

\* for tag, hash := range taghashMap { ... }, the tags taken in the order ord.
RECURSIVE BuildTTLMap(_, _, _, _, _, _)
BuildTTLMap(ord, taghashMap, now, cacheTTL, hashToTag, ttlMap) ==
    IF ord = <<>> THEN ttlMap
    ELSE LET tag == Head(ord)
             hash == taghashMap[tag]
         IN  IF hash \in DOMAIN hashToTag
             THEN LET shortTTL == now + cacheTTL.GitAliasTagTTL IN
                  BuildTTLMap(Tail(ord), taghashMap, now, cacheTTL, hashToTag,
                      (hashToTag[hash] :> shortTTL) @@ (tag :> shortTTL) @@ ttlMap)
             ELSE BuildTTLMap(Tail(ord), taghashMap, now, cacheTTL,
                      (hash :> tag) @@ hashToTag,
                      (tag :> now + cacheTTL.GitTagTTL) @@ ttlMap)

\* Only the tag that meets a hash already seen gets the short expiry.
RECURSIVE BuildTTLMap_NewTagOnly(_, _, _, _, _, _)
BuildTTLMap_NewTagOnly(ord, taghashMap, now, cacheTTL, hashToTag, ttlMap) ==
    IF ord = <<>> THEN ttlMap
    ELSE LET tag == Head(ord)
             hash == taghashMap[tag]
         IN  IF hash \in DOMAIN hashToTag
             THEN BuildTTLMap_NewTagOnly(Tail(ord), taghashMap, now, cacheTTL,
                      hashToTag,
                      (tag :> now + cacheTTL.GitAliasTagTTL) @@ ttlMap)
             ELSE BuildTTLMap_NewTagOnly(Tail(ord), taghashMap, now, cacheTTL,
                      (hash :> tag) @@ hashToTag,
                      (tag :> now + cacheTTL.GitTagTTL) @@ ttlMap)

TTLMap_NewTagOnly(ord, taghashMap, now, cacheTTL) ==
    BuildTTLMap_NewTagOnly(ord, taghashMap, now, cacheTTL, <<>>, <<>>)

TTLMap(ord, taghashMap, now, cacheTTL) ==
    BuildTTLMap(ord, taghashMap, now, cacheTTL, <<>>, <<>>)

\* The transaction of updateCacheDB: one upsert per fetched tag, in the order
\* ord of the second range over the map.
RECURSIVE UpsertAll(_, _, _, _, _)
UpsertAll(s, repoID, ord, taghashMap, ttlMap) ==
    IF ord = <<>> THEN s
    ELSE LET tag == Head(ord)
             hash == taghashMap[tag]
         IN  UpsertAll(
                 Upsert(s, GitTag(repoID, tag, tag, hash.CommitHash, hash.TagHash,
                                  ttlMap[tag])),
                 repoID, Tail(ord), taghashMap, ttlMap)

\* The transaction ends with an error and what it wrote stays.
Rollback_Keeps(before, partial) == partial

\* db.Transaction rolls back when its function returns an error: the store
\* is the one the transaction began with.
Rollback(before, partial) == before

\* The transaction either commits the upsert of every fetched tag, or the
\* Create of the tag at some position fails (no row matched its Updates)
\* after the upserts before it, and the transaction is rolled back and the
\* call returns the error.
UpdateTx ==
    /\ pc = "update"
    /\ call.ctx = "live"
    /\ \E ord1, ord2 \in Orders(DOMAIN fetched) :
          LET ttlMap == TTLMap(ord1, fetched, call.now, ttl) IN
          \/ /\ store' = UpsertAll(store, call.repo, ord2, fetched, ttlMap)
             /\ io' = [io EXCEPT !.writes = @ + 1, !.upserts = Len(ord2)]
             /\ pc' = "prune"
             /\ UNCHANGED result
          \/ \E k \in 1..Len(ord2) :
                LET partial == UpsertAll(store, call.repo,
                                         SubSeq(ord2, 1, k - 1), fetched, ttlMap)
                    hash == fetched[ord2[k]]
                    where == [repo |-> call.repo, tag |-> ord2[k],
                              commitHash |-> hash.CommitHash,
                              tagHash |-> hash.TagHash]
                IN  /\ \A i \in 1..Len(partial) : ~WhereStruct(partial[i], where)
                    /\ store' = Rollback(store, partial)
                    /\ io' = [io EXCEPT !.writes = @ + 1, !.upserts = k - 1]
                    /\ Finish("failed to update the database", <<>>)
    /\ UNCHANGED <<World, call, Scratch, store0, prev, PureVars>>

\* The prune of a refresh deletes the expired rows of its repository only.
PruneTx_OwnRepo ==
    /\ pc = "prune"
    /\ call.ctx = "live"
    /\ store' = SelectSeq(store, LAMBDA r :
                    ~(r.repo = call.repo /\ whereExpired(r, call.now)))
    /\ io' = [io EXCEPT !.writes = @ + 1]
    /\ pc' = "lookup2"
    /\ UNCHANGED <<World, call, Scratch, result, store0, prev, PureVars>>

\* r.PruneCache(ctx, now) at the end of updateCacheDB
PruneTx ==
    /\ pc = "prune"
    /\ call.ctx = "live"
    /\ store' = PruneRows(store, call.now)
    /\ io' = [io EXCEPT !.writes = @ + 1]
    /\ pc' = "lookup2"
    /\ UNCHANGED <<World, call, Scratch, result, store0, prev, PureVars>>

\* The re-read is not looked at: the call goes on to the local clone.
SecondLookup_Ignored ==
    /\ pc = "lookup2"
    /\ call.ctx = "live"
    /\ io' = [io EXCEPT !.reads = @ + 1]
    /\ pc' = IF call.op = "tag" THEN "revParse" ELSE "describe"
    /\ UNCHANGED result
    /\ UNCHANGED <<World, store, call, Scratch, store0, prev, PureVars>>

\* A miss of the re-read sends the call back to the refresh.
SecondLookup_RefreshesAgain ==
    /\ pc = "lookup2"
    /\ call.ctx = "live"
    /\ IF Lookup(store) # <<>>
       THEN /\ Finish("", Lookup(store))
            /\ io' = [io EXCEPT !.reads = @ + 1]
            /\ UNCHANGED <<fetched, cursor>>
       ELSE /\ pc' = "fetch"
            /\ io' = [NoIO EXCEPT !.reads = 1]
            /\ fetched' = NoMap /\ cursor' = 0
            /\ UNCHANGED result
    /\ UNCHANGED <<World, store, call, git, store0, prev, PureVars>>

SecondLookup ==
    /\ pc = "lookup2"
    /\ call.ctx = "live"
    /\ io' = [io EXCEPT !.reads = @ + 1]
    /\ IF Lookup(store) # <<>>
       THEN Finish("", Lookup(store))
       ELSE /\ pc' = IF call.op = "tag" THEN "revParse" ELSE "describe"
            /\ UNCHANGED result
    /\ UNCHANGED <<World, store, call, Scratch, store0, prev, PureVars>>

-----------------------------------------------------------------------------
(* The fallback: local git introspection, then one upsert.                 *)
(*   tag:  rev-parse tag; describe --abbrev=0 tagHash; rev-list tag        *)
(*   hash: describe hash; describe --abbrev=0 hash; rev-parse tag;         *)
(*         rev-list tag                                                    *)

\* A failed run of the executor is run again.
GitStep_Retries(f, value, next) ==
    /\ io' = [io EXCEPT !.gits = @ + 1]
    /\ \/ UNCHANGED <<git, pc, result>>
       \/ /\ value # ""
          /\ git' = [git EXCEPT ![f] = value]
          /\ pc' = next
          /\ UNCHANGED result
    /\ UNCHANGED <<World, store, call, fetched, cursor, store0, prev, PureVars>>

\* A failed run is noted and the call goes on to the next operation.
GitStep_GoesOn(f, value, next) ==
    /\ call.ctx = "live"
    /\ io' = [io EXCEPT !.gits = @ + 1]
    /\ \/ /\ result' = [err |-> "git", rows |-> <<>>]
          /\ pc' = next
          /\ UNCHANGED git
       \/ /\ value # ""
          /\ git' = [git EXCEPT ![f] = value]
          /\ pc' = next
          /\ UNCHANGED result
    /\ UNCHANGED <<World, store, call, fetched, cursor, store0, prev, PureVars>>

\* A failed run leaves a row for the argument of the call, so that the next
\* call for it is answered from the store.
GitStep_RemembersFailure(f, value, next) ==
    /\ call.ctx = "live"
    /\ io' = [io EXCEPT !.gits = @ + 1]
    /\ \/ /\ Finish("git", <<>>)
          /\ store' = Append(store,
                 IF call.op = "tag"
                 THEN GitTag(call.repo, call.arg, "", "", "",
                             call.now + ttl.QueryTTL)
                 ELSE GitTag(call.repo, "", "", call.arg, "",
                             call.now + ttl.QueryTTL))
          /\ UNCHANGED git
       \/ /\ value # ""
          /\ git' = [git EXCEPT ![f] = value]
          /\ pc' = next
          /\ UNCHANGED <<result, store>>
    /\ UNCHANGED <<World, call, fetched, cursor, store0, prev, PureVars>>

\* One run of the executor: it fails (the clone fails, the ref is unknown),
\* or its value goes to the field f and the call moves on to next.
GitStep(f, value, next) ==
    /\ call.ctx = "live"
    /\ io' = [io EXCEPT !.gits = @ + 1]
    /\ \/ /\ Finish("git", <<>>)
          /\ UNCHANGED git
       \/ /\ value # ""
          /\ git' = [git EXCEPT ![f] = value]
          /\ pc' = next
          /\ UNCHANGED result
    /\ UNCHANGED <<World, store, call, fetched, cursor, store0, prev, PureVars>>

\* The hash is described with --abbrev=0: the name is the nearest tag.
GitDescribe_Abbrev0 ==
    /\ pc = "describe"
    /\ GitStep("tag", DescribeAbbrev0(call.arg), "baseTag")

GitDescribe ==
    /\ pc = "describe"
    /\ GitStep("tag", Describe(call.arg), "baseTag")

resolveTagHashFromGitObj ==
    /\ pc = "revParse"
    /\ IF call.op = "tag"
       THEN GitStep("tagHash", RevParse(call.arg), "baseTag")
       ELSE GitStep("tagHash", RevParse(git.tag), "revList")

\* The hash call takes the describe name itself for the base tag.
resolveBaseTagFromGitObj_DescribeName ==
    /\ pc = "baseTag"
    /\ IF call.op = "tag"
       THEN GitStep("baseTag", DescribeAbbrev0(git.tagHash), "revList")
       ELSE GitStep("baseTag", git.tag, "revParse")

resolveBaseTagFromGitObj ==
    /\ pc = "baseTag"
    /\ IF call.op = "tag"
       THEN GitStep("baseTag", DescribeAbbrev0(git.tagHash), "revList")
       ELSE GitStep("baseTag", DescribeAbbrev0(call.arg), "revParse")

resolveCommitHashFromGitObj ==
    /\ pc = "revList"
    /\ GitStep("commitHash",
               RevList(IF call.op = "tag" THEN call.arg ELSE git.tag), "write")

\* The fallback entry gets the lifetime of the entries of the bulk refresh.
newGitTag_TagTTL ==
    GitTag(call.repo, IF call.op = "tag" THEN call.arg ELSE git.tag,
           git.baseTag, git.commitHash, git.tagHash, call.now + ttl.GitTagTTL)

newGitTag ==
    GitTag(call.repo, IF call.op = "tag" THEN call.arg ELSE git.tag,
           git.baseTag, git.commitHash, git.tagHash, call.now + ttl.GitFileTTL)

WriteTx ==
    /\ pc = "write"
    /\ call.ctx = "live"
    /\ store' = Upsert(store, newGitTag)
    /\ io' = [io EXCEPT !.writes = @ + 1]
    /\ Finish("", <<newGitTag>>)
    /\ UNCHANGED <<World, call, Scratch, store0, prev, PureVars>>

\* The statements that take the context of the call: the transactions on
\* r.db.WithContext(ctx) and the runs of the git executor.
ContextSteps == {"lookup1", "update", "prune", "lookup2", "describe",
                 "revParse", "baseTag", "revList", "write"}

\* On a canceled context such a statement returns the error of the context
\* and the call returns it: no transaction begins and no process starts.
Canceled ==
    /\ pc \in ContextSteps
    /\ call.ctx = "canceled"
    /\ Finish("context canceled", <<>>)
    /\ UNCHANGED <<World, store, call, Scratch, io, store0, prev, PureVars>>

\* The caller goes on to something else.
Return ==
    /\ pc = "done"
    /\ pc' = "idle"
    /\ prev' = NoPrev
    /\ call' = NoCall /\ result' = NoResult /\ io' = NoIO /\ store0' = <<>>
    /\ fetched' = NoMap /\ cursor' = 0 /\ git' = NoGit
    /\ UNCHANGED <<World, store, PureVars>>

-----------------------------------------------------------------------------
(* What happens around the calls.                                          *)

\* PruneCache(ctx, threshold), called by the user of the package; <<>> is a
\* nil threshold, which stands for time.Now().  prev tells whether the call
\* right before was PruneCache with the same threshold.
PruneCache(threshold) ==
    /\ pc \in {"idle", "done"}
    /\ LET t == IF threshold = <<>> THEN clock ELSE threshold[1] IN
          /\ call' = Call("prune", "", "", t)
          /\ store' = PruneRows(store, t)
    /\ store0' = store
    /\ io' = [NoIO EXCEPT !.writes = 1]
    /\ Finish("", <<>>)
    /\ prev' = IF pc = "done" /\ call.op = "prune" /\ <<call.now>> = threshold
               THEN [kind |-> "same", rows |-> <<>>]
               ELSE NoPrev
    /\ fetched' = NoMap /\ cursor' = 0 /\ git' = NoGit
    /\ UNCHANGED <<World, PureVars>>

\* The thresholds tried: nil, every time of the clock, and the expiry of
\* every row and the tick after it.
Thresholds ==
    {<<>>} \cup {<<t>> : t \in 0..MaxTime}
           \cup {<<store[i].expiresAt + d>> : i \in 1..Len(store), d \in {0, 1}}

\* resolver.New(params) of the next run of the program, on the same cache
\* directory and with the same --cache-ttl: all rows are deleted when
\* params.ClearCache is set.
New(clearCache) ==
    /\ pc = "idle"
    /\ store' = IF clearCache THEN ClearRows(store) ELSE store
    /\ prev' = IF clearCache THEN [kind |-> "clear"] ELSE NoPrev
    /\ UNCHANGED <<World, pc, call, Scratch, result, io, store0, PureVars>>

\* Time passes.  A call reads the clock once, when it starts, so time that
\* passes later in the call is time that passes after it; the remote fetch
\* is where a call waits.
Tick ==
    /\ pc \in {"idle", "fetch", "done"}
    /\ clock < MaxTime
    /\ clock' = clock + 1
    /\ UNCHANGED <<ttl, remote, store, pc, call, Scratch, result, io, store0,
                   prev, PureVars>>

\* A tag of the remote repository is moved to another object, between two
\* calls or between two pages of a listing.
Repoint(repo, tag, hash) ==
    /\ pc \in {"idle", "fetchNext"}
    /\ tag \in DOMAIN remote[repo]
    /\ remote[repo][tag] # hash
    /\ remote' = [remote EXCEPT ![repo] = (tag :> hash) @@ @]
    /\ UNCHANGED <<clock, ttl, store, pc, call, Scratch, result, io, store0,
                   prev, PureVars>>

\* The caller cancels the context of the running call.
Cancel ==
    /\ pc \notin {"idle", "done"}
    /\ call.ctx = "live"
    /\ call' = [call EXCEPT !.ctx = "canceled", !.atCancel = io]
    /\ UNCHANGED <<World, store, pc, Scratch, result, io, store0, prev,
                   PureVars>>

\* The steps of a running call, and what happens around the calls.
Steps ==
    \/ FirstLookup
    \/ FetchFirstPage
    \/ FetchNextPage
    \/ UpdateTx
    \/ PruneTx
    \/ SecondLookup
    \/ GitDescribe
    \/ resolveTagHashFromGitObj
    \/ resolveBaseTagFromGitObj
    \/ resolveCommitHashFromGitObj
    \/ WriteTx
    \/ Return
    \/ \E threshold \in Thresholds : PruneCache(threshold)
    \/ \E clearCache \in BOOLEAN : New(clearCache)
    \/ Tick
    \/ \E hash \in RemoteHashes : Repoint(RepoA, "v1", hash)

\* One repository, every argument.
Next ==
    \/ \E tag \in TagArgs : ResolveFromTagContext(RepoA, tag)
    \/ \E hash \in HashArgs : ResolveFromHashContext(RepoA, hash)
    \/ Steps

Spec == Init /\ [][Next]_vars

-----------------------------------------------------------------------------
(* Properties of the resolve calls.                                        *)

\* The fields of an entry a caller compares.
Fields(r) == <<r.repo, r.tag, r.baseTag, r.commitHash, r.tagHash>>

\* The running call is the second of two identical ResolveFromTag calls made
\* in succession, the first of which succeeded.
SecondOfTwo == prev.kind = "same" /\ call.op = "tag"

\* C1, as claimed: resolving the same tag twice in succession returns
\* identical results, and the second call is a pure cache hit: it requests no
\* page from the remote and runs no git operation.
C1_TwiceInSuccession ==
    SecondOfTwo =>
        /\ pc \in {"lookup1", "done"}
        /\ io.pages = 0 /\ io.gits = 0
        /\ pc = "done" =>
              /\ result.err = ""
              /\ Len(result.rows) = 1
              /\ Fields(result.rows[1]) = Fields(prev.rows[1])

\* C1, amended: the same holds when the entry the first call returned has not
\* expired at the reference time of the second call.
C1_TwiceWhileFresh ==
    (SecondOfTwo /\ call.now <= prev.rows[1].expiresAt) =>
        /\ pc \in {"lookup1", "done"}
        /\ io.pages = 0 /\ io.gits = 0
        /\ pc = "done" =>
              /\ result.err = ""
              /\ Len(result.rows) = 1
              /\ Fields(result.rows[1]) = Fields(prev.rows[1])

\* The second call has hit on an entry that the fallback of the first wrote.
C1_Witness ==
    /\ SecondOfTwo
    /\ pc = "done" /\ result.err = "" /\ io.reads = 1 /\ io.pages = 0
    /\ prev.rows[1].tag = "v1.1.0-1-gc3"
    /\ prev.rows[1].baseTag = "v1.1.0"

\* C2, as claimed: the store never holds two live rows of one
\* (repositoryID, tag).
C2_UniqueKey ==
    \A i, j \in 1..Len(store) :
        (store[i].repo = store[j].repo /\ store[i].tag = store[j].tag) => i = j

\* The call was answered from the cache, by its first lookup or by the
\* re-read after the refresh.
CacheHit == pc = "done" /\ result.err = "" /\ io.gits = 0

\* C3, as claimed: a cache hit of hash-to-tags resolution returns no entry
\* that expired before the reference time of the call.
C3_HashHitIsFresh ==
    (CacheHit /\ call.op = "hash") =>
        \A i \in 1..Len(result.rows) : result.rows[i].expiresAt >= call.now

\* The first lookup of a tag-to-hashes call has run.
TagLookedUp == call.op = "tag" /\ io.reads >= 1

\* A row of (repositoryID, tag) that is fresh at the reference time.
FreshRows(s) ==
    SelectSeq(s, LAMBDA r : r.repo = call.repo /\ r.tag = call.arg
                            /\ r.expiresAt >= call.now)

\* The first lookup hit: the call returned without a refresh.
FirstLookupHit == pc = "done" /\ result.err = "" /\ io.pages = 0

\* C4: the lookup by tag returns an entry only if its expiresAt >= asOf, it
\* returns one whenever the store has such a row, and when the rows of the
\* tag are all expired or absent the call goes on to the bulk refresh.
C4_ExpiredIsAbsent ==
    TagLookedUp =>
        /\ (CacheHit =>
              /\ result.rows[1].repo = call.repo
              /\ result.rows[1].tag = call.arg
              /\ result.rows[1].expiresAt >= call.now)
        /\ (FreshRows(store0) # <<>> =>
              /\ FirstLookupHit
              /\ result.rows = <<Head(FreshRows(store0))>>)
        /\ (FreshRows(store0) = <<>> => io.pages >= 1 \/ pc = "fetch")

\* The tag has an expired row that was not pruned, and the call is on its way
\* to the refresh.
C4_Witness ==
    /\ TagLookedUp /\ pc = "fetch"
    /\ \E i \in 1..Len(store0) :
          /\ store0[i].repo = call.repo /\ store0[i].tag = call.arg
          /\ store0[i].expiresAt < call.now

\* An invalid argument: an empty tag, or a hash that is not 40 lowercase hex
\* characters even after its white space is trimmed.
MalformedHashes == {"c1x", "C1"}

InvalidInput ==
    \/ call.op = "tag" /\ call.arg = ""
    \/ call.op = "hash" /\ call.arg \in MalformedHashes

\* C8: a call with an invalid argument returns an error without any read of
\* the store, remote fetch, git operation or write.
C8_RejectedBeforeIO ==
    (InvalidInput /\ pc # "idle") =>
        /\ pc = "done"
        /\ result.err # "" /\ result.rows = <<>>
        /\ io = NoIO
        /\ store = store0

C8_Witness ==
    /\ InvalidInput /\ pc = "done" /\ call.arg = "c1x" /\ store # <<>>

\* C9: when the remote fetch fails, on the first page or on a later one, the
\* call returns an error, the store is as it was when the call started, and
\* no git operation has run.
C9_FetchFailure ==
    result.err = "error fetching tag and oid" =>
        /\ pc = "done"
        /\ result.rows = <<>>
        /\ store = store0
        /\ io.gits = 0 /\ io.writes = 0

\* The second page of the listing failed, over a store that holds rows.
C9_Witness ==
    /\ pc = "done" /\ result.err = "error fetching tag and oid"
    /\ io.pages = 2 /\ store0 # <<>>

\* C10: the resolve call that follows New with ClearCache set never returns
\* from its first lookup: if its argument is valid it requests the listing
\* from the remote, over an empty store.
C10_RefreshAfterClear ==
    (prev.kind = "clear" /\ pc # "idle" /\ io.reads >= 1) =>
        /\ store0 = <<>>
        /\ pc # "lookup1" => (io.pages >= 1 \/ pc = "fetch")

\* The call after a clear has come back with an entry.
C10_Witness ==
    /\ prev.kind = "clear" /\ pc = "done" /\ result.err = ""
    /\ io.pages >= 1 /\ Len(result.rows) = 1

-----------------------------------------------------------------------------
(* The bulk refresh on fetched tables of up to MaxAliasTags tags: the      *)
(* listing is complete and updateCacheDB is about to range over it.        *)

MaxAliasTags == 3

AliasTagOrder == <<"v1", "v1.1.0", "latest", "stable", "v2">>
AliasTags == {AliasTagOrder[i] : i \in 1..Min(MaxAliasTags, Len(AliasTagOrder))}

\* (c1, t1) and (c1, c1) share the commit and are different pairs.
AliasHashes == {Annotated, Lightweight, Hash("c1", "c1")}

InitAlias ==
    /\ clock = 0
    /\ ttl \in {NewCacheTTL(b) : b \in BaseTTLs}
    /\ fetched \in [AliasTags -> AliasHashes]
    /\ remote = [r \in Repos |-> fetched]
    /\ store \in {<<>>, <<GitTag(RepoA, "v1", "v1", "c1", "t1", 0)>>}
    /\ store0 = store
    /\ pc = "update"
    /\ call = Call("tag", RepoA, "v9", 0)
    /\ cursor = Len(TagOrder)
    /\ git = NoGit
    /\ result = NoResult
    /\ io = [NoIO EXCEPT !.reads = 1, !.pages = 1]
    /\ prev = NoPrev
    /\ inp = <<>>
    /\ out = ""

NextAlias == UpdateTx \/ PruneTx

SpecAlias == InitAlias /\ [][NextAlias]_vars

\* The tag shares its (commitHash, tagHash) pair with another fetched tag.
IsAlias(tag) ==
    \E other \in DOMAIN fetched \ {tag} : fetched[other] = fetched[tag]

\* The rows of the tag that carry the fetched hashes.
RowsOf(tag) ==
    SelectSeq(store, LAMBDA r :
        /\ r.repo = call.repo /\ r.tag = tag
        /\ r.commitHash = fetched[tag].CommitHash
        /\ r.tagHash = fetched[tag].TagHash)

\* C5: after the upserts of one bulk refresh every tag that shares its pair
\* with another fetched tag has one row, with expiresAt = now +
\* gitAliasTagTTL; the prune that follows leaves it so unless that expiry
\* is before now.
C5_AliasExpiry ==
    pc \in {"prune", "lookup2"} =>
        \A tag \in DOMAIN fetched :
            IsAlias(tag) =>
                /\ \A i \in 1..Len(RowsOf(tag)) :
                      RowsOf(tag)[i].expiresAt = call.now + ttl.GitAliasTagTTL
                /\ (pc = "prune" \/ ttl.GitAliasTagTTL >= 0) =>
                      Len(RowsOf(tag)) = 1

\* Three aliases of one pair, one of which had a row before the refresh.
C5_Witness ==
    /\ pc = "lookup2" /\ store0 # <<>> /\ Len(store) = 3
    /\ Cardinality(DOMAIN fetched) >= 3
    /\ \A tag \in DOMAIN fetched : fetched[tag] = Annotated
    /\ \A i \in 1..Len(store) : store[i].expiresAt = call.now + ttl.GitAliasTagTTL

-----------------------------------------------------------------------------
(* Two repositories that share one cache file.                             *)

NextRepos ==
    \/ \E repo \in Repos : ResolveFromTagContext(repo, "v1")
    \/ ResolveFromHashContext(RepoA, "c3")
    \/ ResolveFromHashContext(RepoB, "t1")
    \/ Steps

SpecRepos == Init /\ [][NextRepos]_vars

\* C6: PruneCache(t) removes exactly the rows with expiresAt < t, of every
\* repository, and leaves the other rows as they were, in their order.
C6_PruneExactly ==
    (pc = "done" /\ call.op = "prune") =>
        store = SelectSeq(store0, LAMBDA r : r.expiresAt >= call.now)

\* A prune has removed a row of one repository and kept a row of the other
\* that expires at the threshold.
C6_Witness ==
    /\ pc = "done" /\ call.op = "prune"
    /\ \E i \in 1..Len(store0), j \in 1..Len(store) :
          /\ store0[i].expiresAt < call.now
          /\ store[j].expiresAt = call.now
          /\ store0[i].repo # store[j].repo

-----------------------------------------------------------------------------
(* Validation of the hash argument, on arbitrary strings around the        *)
(* 40-character pattern.                                                    *)

LenSlack == 1
MaxPad == 1

PadChars == {" ", "\n"}
OddChars == {"g", "A", "!", " ", "\t"}

Pads == UNION {[1..n -> PadChars] : n \in 0..MaxPad}

\* Strings of one repeated hexadecimal digit, possibly with one character
\* of another kind at either end or in the middle.
Bodies ==
    LET plain == {AllOf(c, n) : c \in {"0", "f"},
                  n \in (shaLen - LenSlack)..(shaLen + LenSlack)}
    IN  plain \cup {[b EXCEPT ![i] = x] :
                    b \in plain, i \in {1, shaLen \div 2, shaLen - LenSlack},
                    x \in OddChars}

HashInputs == {l \o b \o r : l \in Pads, b \in Bodies, r \in Pads}

InitSHA ==
    /\ clock = 0
    /\ ttl = NewCacheTTL(0)
    /\ store = <<>>
    /\ remote = InitialRemote
    /\ pc = "idle"
    /\ call = NoCall
    /\ fetched = NoMap
    /\ cursor = 0
    /\ git = NoGit
    /\ result = NoResult
    /\ io = NoIO
    /\ store0 = <<>>
    /\ prev = NoPrev
    /\ inp \in HashInputs
    /\ out = ""

\* The first statement of ResolveFromHashContext on the string inp.
ValidateHash ==
    /\ out = ""
    /\ out' = IF IsSHA(inp) THEN "accepted" ELSE "invalid SHA"
    /\ UNCHANGED <<World, store, pc, call, Scratch, result, io, store0, prev,
                   inp>>

NextSHA == ValidateHash

SpecSHA == InitSHA /\ [][NextSHA]_vars

IsLowerHex40(s) == Len(s) = shaLen /\ \A i \in 1..Len(s) : s[i] \in HexChars

\* C7: a string is accepted as a hash exactly when it is 40 lowercase
\* hexadecimal characters; any other length, and any string with a
\* character outside 0-9a-f (whitespace included), is rejected.
C7_HashValidation ==
    out # "" => (out = "accepted" <=> IsLowerHex40(inp))

-----------------------------------------------------------------------------
(* The course of one resolve call.                                         *)

\* A resolve call is running or has just returned.
Resolving == call.op \in {"tag", "hash"}

\* The pages of the listing of a repository: one query each, and one query
\* for an empty listing.
PagesOf(repo) ==
    LET n == Cardinality(DOMAIN remote[repo])
        k == Min(PageLen, maxPageSize)
    IN  IF n = 0 THEN 1 ELSE (n + k - 1) \div k

\* The git operations of one fallback: rev-parse, describe --abbrev=0 and
\* rev-list, and the describe of the hash before them.
GitOpsOf(op) == IF op = "tag" THEN 3 ELSE 4

\* C11: a resolve call asks the remote for every page of the listing at most
\* once, runs every git operation of the fallback at most once, and is over
\* as soon as an operation has failed.
C11_NoRepeat ==
    Resolving =>
        /\ io.pages <= PagesOf(call.repo)
        /\ io.gits <= GitOpsOf(call.op)
        /\ result.err # "" => pc = "done"

\* A call has failed in its last git operation, after a complete listing.
C11_Witness ==
    /\ Resolving /\ pc = "done" /\ result.err = "git"
    /\ io.pages = PagesOf(call.repo)
    /\ io.gits = GitOpsOf(call.op)

-----------------------------------------------------------------------------
(* Calls whose context the caller may cancel.                              *)

NextCancel ==
    \/ ResolveFromTagContext(RepoA, "v1.1.0-1-gc3")
    \/ ResolveFromHashContext(RepoA, "c3")
    \/ Steps
    \/ Cancel
    \/ Canceled

SpecCancel == Init /\ [][NextCancel]_vars

\* C12, as claimed: once the context of a resolve call is canceled the call
\* asks for no further page, runs no further git operation, writes nothing
\* more to the store, and does not return a result.
C12_CancelStopsCall ==
    (Resolving /\ call.ctx = "canceled") =>
        /\ io.pages = call.atCancel.pages
        /\ io.gits = call.atCancel.gits
        /\ io.writes = call.atCancel.writes
        /\ pc = "done" => result.err # ""

-----------------------------------------------------------------------------
(* The entries the calls write and return.                                 *)

\* The call went through the local git operations and wrote their entry.
FallbackDone == Resolving /\ pc = "done" /\ result.err = "" /\ io.gits > 0

\* C13: the entry of the fallback, of either operation, is stored and
\* returned with expiresAt = now + GitFileTTL, now being the reference time
\* the call read when it started.
C13_FallbackExpiry ==
    FallbackDone =>
        /\ Len(result.rows) = 1
        /\ result.rows[1].expiresAt = call.now + ttl.GitFileTTL
        /\ \E i \in 1..Len(store) : store[i] = result.rows[1]

\* A hash call has written its fallback entry after time has passed in the
\* call, under lifetimes that differ from each other.
C13_Witness ==
    /\ FallbackDone /\ call.op = "hash"
    /\ clock > call.now
    /\ ttl.GitFileTTL # ttl.GitTagTTL

-----------------------------------------------------------------------------
(* The TTL policy on time.Duration, an int64 count of nanoseconds.  An     *)
(* int64 is its two's complement bit pattern, cut into limbs of 16 bits,   *)
(* lowest first.                                                           *)

LimbBase == 2^16
Int64Limbs == 64 \div 16

\* x * k + carry of a natural number x in limbs, exactly: one limb more.
RECURSIVE MulSmall(_, _, _)
MulSmall(x, k, carry) ==
    IF x = <<>> THEN <<carry>>
    ELSE LET p == Head(x) * k + carry
         IN  <<p % LimbBase>> \o MulSmall(Tail(x), k, p \div LimbBase)

\* x / k of a natural number x in limbs, rem being the remainder carried
\* down from the limbs above.
RECURSIVE DivSmall(_, _, _)
DivSmall(x, k, rem) ==
    IF x = <<>> THEN <<>>
    ELSE LET cur == rem * LimbBase + x[Len(x)]
         IN  DivSmall(SubSeq(x, 1, Len(x) - 1), k, cur % k) \o <<cur \div k>>

\* The low 64 bits.
Wrap64(x) == SubSeq(x, 1, Int64Limbs)

IsNeg64(x) == x[Int64Limbs] >= LimbBase \div 2

\* -x in int64: the complement plus one.
Neg64(x) == Wrap64(MulSmall([i \in DOMAIN x |-> LimbBase - 1 - x[i]], 1, 1))

\* x * k in int64, for a constant k > 0: the product wraps.
Mul64(x, k) == Wrap64(MulSmall(x, k, 0))

\* x / k in int64, for a constant k > 0: the quotient is truncated toward
\* zero.
Div64(x, k) ==
    IF IsNeg64(x) THEN Neg64(DivSmall(Neg64(x), k, 0)) ELSE DivSmall(x, k, 0)

\* NewCacheTTL on int64 durations.
NewCacheTTL64(gitTagTTL) ==
    [GitFileTTL     |-> Mul64(gitTagTTL, 30),
     GitTagTTL      |-> gitTagTTL,
     GitAliasTagTTL |-> Div64(gitTagTTL, 8),
     QueryTTL       |-> Div64(gitTagTTL, 2)]

NoTTL == [GitFileTTL |-> <<>>, GitTagTTL |-> <<>>, GitAliasTagTTL |-> <<>>,
          QueryTTL |-> <<>>]

\* Durations time.ParseDuration returns: one hour, a hundred thousand hours,
\* and the int64 values whose limbs are at the ends and in the middle of
\* the range of a limb.
Hour == <<40960, 12472, 838, 0>>
HundredThousandHours == <<0, 46884, 64023, 1278>>
LimbValues == {0, 1, 7, LimbBase \div 2 - 1, LimbBase \div 2, LimbBase - 1}
Durations ==
    {Hour, HundredThousandHours} \cup [1..Int64Limbs -> LimbValues]

InitTTL ==
    /\ clock = 0
    /\ ttl = NewCacheTTL(0)
    /\ store = <<>>
    /\ remote = InitialRemote
    /\ pc = "idle"
    /\ call = NoCall
    /\ fetched = NoMap
    /\ cursor = 0
    /\ git = NoGit
    /\ result = NoResult
    /\ io = NoIO
    /\ store0 = <<>>
    /\ prev = NoPrev
    /\ inp \in Durations
    /\ out = NoTTL

\* ParseCacheTTL(ttl) on a string that parses to the duration inp.
ParseCacheTTL ==
    /\ out = NoTTL
    /\ out' = NewCacheTTL64(inp)
    /\ UNCHANGED <<World, store, pc, call, Scratch, result, io, store0, prev,
                   inp>>

NextTTL == ParseCacheTTL

SpecTTL == InitTTL /\ [][NextTTL]_vars

\* The magnitude of an int64, as a natural number in limbs.
Mag64(x) == IF IsNeg64(x) THEN Neg64(x) ELSE x

IsZero64(x) == \A i \in DOMAIN x : x[i] = 0

\* The int64 y is the integer x * k.
IsProduct(y, x, k) ==
    /\ MulSmall(Mag64(x), k, 0) = Mag64(y) \o <<0>>
    /\ IsZero64(y) \/ (IsNeg64(y) <=> IsNeg64(x))

\* The int64 y is the integer x / k, truncated toward zero.
IsQuotient(y, x, k) ==
    /\ \E r \in 0..(k - 1) : MulSmall(Mag64(y), k, r) = Mag64(x) \o <<0>>
    /\ IsZero64(y) \/ (IsNeg64(y) <=> IsNeg64(x))

\* C14, as claimed: for every duration the parser returns the lifetimes are
\* gitTagTTL * 30, gitTagTTL / 8 and gitTagTTL / 2.
C14_DerivedTTLs ==
    out # NoTTL =>
        /\ out.GitTagTTL = inp
        /\ IsProduct(out.GitFileTTL, inp, 30)
        /\ IsQuotient(out.GitAliasTagTTL, inp, 8)
        /\ IsQuotient(out.QueryTTL, inp, 2)

\* The running call is ResolveFromHash on the commit hash or the tag hash of
\* the entry that the ResolveFromTag call just before it returned.
RoundTrip == prev.kind = "round"

\* C15, as claimed: the hash call that follows a tag call returns an entry
\* with the tag and the hashes and baseTag the tag call returned, without a
\* remote fetch.
C15_RoundTrip ==
    RoundTrip =>
        /\ pc \in {"lookup1", "done"}
        /\ io.pages = 0
        /\ pc = "done" =>
              /\ result.err = ""
              /\ \E i \in 1..Len(result.rows) :
                    Fields(result.rows[i]) = Fields(prev.rows[1])

\* C15, amended: the same holds when the entry the tag call returned has not
\* expired at the reference time of the hash call.
C15_RoundTripWhileFresh ==
    (RoundTrip /\ call.now <= prev.rows[1].expiresAt) =>
        /\ pc \in {"lookup1", "done"}
        /\ io.pages = 0
        /\ pc = "done" =>
              /\ result.err = ""
              /\ \E i \in 1..Len(result.rows) :
                    Fields(result.rows[i]) = Fields(prev.rows[1])

\* The commit hash of an annotated tag has come back with the tag and its
\* alias.
C15_Witness ==
    /\ RoundTrip /\ pc = "done" /\ result.err = ""
    /\ call.arg = prev.rows[1].commitHash
    /\ prev.rows[1].commitHash # prev.rows[1].tagHash
    /\ Len(result.rows) >= 2

\* A tag call on an empty cache has returned an entry, and the listing it
\* fetched has the tag.
ListedTagResolved ==
    /\ call.op = "tag" /\ pc = "done" /\ result.err = ""
    /\ store0 = <<>>
    /\ call.arg \in DOMAIN fetched

\* C16, as claimed: on an empty cache a tag of the remote listing resolves
\* to the hashes of the listing with baseTag = tag, and no git operation
\* runs.
C16_ListedTag ==
    ListedTagResolved =>
        /\ io.gits = 0
        /\ result.rows[1].commitHash = fetched[call.arg].CommitHash
        /\ result.rows[1].tagHash = fetched[call.arg].TagHash
        /\ result.rows[1].baseTag = call.arg

\* A hash call has returned after a refresh whose listing has no tag on the
\* hash, the hash not having been in the cache either.
UnlistedHashResolved ==
    /\ call.op = "hash" /\ pc = "done" /\ result.err = ""
    /\ io.pages >= 1
    /\ \A t \in DOMAIN fetched :
          call.arg \notin {fetched[t].CommitHash, fetched[t].TagHash}

\* C17: then the result is one entry, with the describe name of the hash for
\* its tag and the nearest tag for its baseTag, and the store holds this
\* entry, and no other of its tag.
C17_UnlistedHash ==
    UnlistedHashResolved =>
        /\ Len(result.rows) = 1
        /\ result.rows[1].repo = call.repo
        /\ result.rows[1].tag = Describe(call.arg)
        /\ result.rows[1].baseTag = DescribeAbbrev0(call.arg)
        /\ \E i \in 1..Len(store) : store[i] = result.rows[1]
        /\ \A i \in 1..Len(store) :
              (store[i].repo = call.repo /\ store[i].tag = result.rows[1].tag)
                  => store[i] = result.rows[1]

\* The commit past the last tag has been resolved over a store that held
\* other rows.
C17_Witness ==
    /\ UnlistedHashResolved /\ call.arg = "c3" /\ io.gits = GitOpsOf("hash")
    /\ result.rows[1].tag # result.rows[1].baseTag
    /\ store0 # <<>> /\ Len(store) > Len(store0)

-----------------------------------------------------------------------------
(* PruneCache called twice.                                                *)

\* The call that has returned is the second of two PruneCache(t) in
\* succession.
SecondPrune == call.op = "prune" /\ prev.kind = "same"

\* C18: the second of two prunes with one threshold deletes no row: the
\* store is as the first prune left it.
C18_PruneIdempotent ==
    SecondPrune => store = store0

\* Both prunes ran on a store with a row that expires at the threshold.
C18_Witness ==
    /\ SecondPrune /\ store # <<>>
    /\ \E i \in 1..Len(store) : store[i].expiresAt = call.now

-----------------------------------------------------------------------------
(* The phases of a resolve call: read, bulk refresh, re-read, local git,   *)
(* write.                                                                  *)

GitPhase == {"describe", "revParse", "baseTag", "revList", "write"}

\* The remote has been asked, or is about to be.
InRefresh == pc \in {"fetch", "fetchNext", "update", "prune"} \/ io.pages >= 1

\* The local clone has been asked, or is about to be.
InFallback == pc \in GitPhase \/ io.gits >= 1

\* C19: a call turns to the remote only after its first lookup has run and
\* missed, and to the local clone only after its refresh has fetched the
\* listing, written it and pruned, and the re-read has run and missed; the
\* fallback entry is written after all git operations.
C19_PhaseOrder ==
    Resolving =>
        /\ InRefresh => (io.reads >= 1 /\ Lookup(store0) = <<>>)
        /\ InFallback =>
              /\ io.reads = 2 /\ io.pages = PagesOf(call.repo)
              /\ io.writes >= 2
              /\ pc \in GitPhase => Lookup(store) = <<>>
        /\ (io.writes = 3 \/ pc = "write") => io.gits = GitOpsOf(call.op)
        /\ (pc = "lookup2" \/ io.reads = 2) => io.writes >= 2

\* A call is in its last git operation.
C19_Witness ==
    /\ Resolving /\ pc = "revList" /\ io.gits = GitOpsOf(call.op) - 1
    /\ store # <<>>

\* The call has returned the rows of its first lookup.
HitOnFirstLookup ==
    Resolving /\ pc = "done" /\ result.err = "" /\ io.reads = 1

\* C20: a call that returns from its first lookup has asked neither the
\* remote nor the local clone and leaves the store as it was.
C20_HitChangesNothing ==
    HitOnFirstLookup =>
        /\ io.pages = 0 /\ io.gits = 0 /\ io.writes = 0
        /\ store = store0

\* A hit on a store with an expired row that a prune would delete.
C20_Witness ==
    /\ HitOnFirstLookup
    /\ \E i \in 1..Len(store) : store[i].expiresAt < call.now

-----------------------------------------------------------------------------
(* The store after a bulk refresh.                                         *)

\* updateCacheDB has returned without error: the call is at its re-read.
Refreshed == Resolving /\ pc = "lookup2"

\* C21: after a bulk refresh with reference time now the store has no row,
\* of any repository, with expiresAt < now.
C21_NoExpiredAfterRefresh ==
    Refreshed => \A i \in 1..Len(store) : store[i].expiresAt >= call.now

\* The refresh of one repository has swept an expired row of another.
C21_Witness ==
    /\ Refreshed /\ store # <<>>
    /\ \E i \in 1..Len(store0) :
          store0[i].repo # call.repo /\ store0[i].expiresAt < call.now

\* C22: after the upserts of one bulk refresh every tag whose (commitHash,
\* tagHash) pair no other fetched tag has, has one row with the fetched
\* hashes, with expiresAt = now + gitTagTTL, also when that row existed
\* before with another expiry; the prune that follows leaves it so unless
\* that expiry is before now.
C22_UniqueTagExpiry ==
    pc \in {"prune", "lookup2"} =>
        \A tag \in DOMAIN fetched :
            ~IsAlias(tag) =>
                /\ \A i \in 1..Len(RowsOf(tag)) :
                      RowsOf(tag)[i].expiresAt = call.now + ttl.GitTagTTL
                /\ (pc = "prune" \/ ttl.GitTagTTL >= 0) =>
                      Len(RowsOf(tag)) = 1

\* The row of v1 was there before the refresh with another expiry, and v1
\* is the only fetched tag with its pair.
C22_Witness ==
    /\ pc = "lookup2" /\ store0 # <<>>
    /\ ~IsAlias("v1") /\ Len(RowsOf("v1")) = 1
    /\ store0[1].commitHash = fetched["v1"].CommitHash
    /\ store0[1].tagHash = fetched["v1"].TagHash
    /\ store0[1].expiresAt # call.now + ttl.GitTagTTL
    /\ RowsOf("v1")[1].expiresAt = call.now + ttl.GitTagTTL

-----------------------------------------------------------------------------
(* A git operation of the fallback fails.                                  *)

\* The git operations of the call that have given their value.
GitValues == {f \in DOMAIN git : git[f] # ""}

\* The store is what the bulk refresh of the call has committed.
RefreshCommitted ==
    \E ord1, ord2 \in Orders(DOMAIN fetched) :
        store = PruneRows(UpsertAll(store0, call.repo, ord2, fetched,
                                    TTLMap(ord1, fetched, call.now, ttl)),
                          call.now)

\* C23: when a git operation of the fallback fails the call returns the
\* error at once: no git operation runs after the failed one, no entry is
\* written for the requested tag or hash, and the store holds what the bulk
\* refresh of the call committed.
C23_GitFailure ==
    (Resolving /\ result.err = "git") =>
        /\ pc = "done"
        /\ io.gits = Cardinality(GitValues) + 1
        /\ io.writes = 2
        /\ Lookup(store) = <<>>
        /\ RefreshCommitted

\* The second git operation has failed after a refresh that changed the
\* store.
C23_Witness ==
    /\ Resolving /\ pc = "done" /\ result.err = "git"
    /\ Cardinality(GitValues) = 1
    /\ store # store0 /\ store # <<>>

-----------------------------------------------------------------------------
(* The transaction of the bulk refresh fails.                              *)

UpdateFailed == Resolving /\ result.err = "failed to update the database"

\* C24: when a Create of the bulk refresh fails after some tags were written
\* the call returns the error and the store is the store before the refresh:
\* none of the upserts of the transaction is kept, and nothing runs after it.
C24_AtomicUpserts ==
    UpdateFailed =>
        /\ pc = "done" /\ result.rows = <<>>
        /\ store = store0
        /\ io.gits = 0 /\ io.reads = 1 /\ io.writes = 1

\* The Create of the second tag has failed after the upsert of the first,
\* which had changed a row that was there.
C24_Witness ==
    /\ UpdateFailed /\ pc = "done"
    /\ io.upserts >= 1 /\ store0 # <<>>

-----------------------------------------------------------------------------
(* A remote that answers with any oid and any commit path.                 *)

\* What the remote may give for v1: a tag object and a commit as they should
\* be, an oid in upper case, a commit path that ends in 41 characters, and a
\* commit path that ends in a newline.
OddHashes == {Annotated, Hash("c1", "C1"), Hash("c1x", "t1"), Hash("c1 ", "t1")}

InitOdd ==
    /\ clock = 0
    /\ ttl \in {NewCacheTTL(b) : b \in BaseTTLs}
    /\ store = <<>>
    /\ \E h \in OddHashes :
          remote = [r \in Repos |->
                       IF r = RepoA
                       THEN [t \in RemoteTags |->
                                IF t = "v1" THEN h ELSE Annotated]
                       ELSE InitialRemote[r]]
    /\ pc = "idle"
    /\ call = NoCall
    /\ fetched = NoMap
    /\ cursor = 0
    /\ git = NoGit
    /\ result = NoResult
    /\ io = NoIO
    /\ store0 = <<>>
    /\ prev = NoPrev
    /\ inp = <<>>
    /\ out = ""

NextOdd ==
    \/ ResolveFromTagContext(RepoA, "v1")
    \/ ResolveFromTagContext(RepoA, "v1.1.0-1-gc3")
    \/ ResolveFromHashContext(RepoA, "c3")
    \/ Steps

SpecOdd == InitOdd /\ [][NextOdd]_vars

\* C25: every row of the store has a commitHash and a tagHash of exactly 40
\* lowercase hexadecimal characters, whatever the remote and git return.
C25_OnlyShaStored ==
    \A i \in 1..Len(store) :
        /\ IsLowerHex40(Text(store[i].commitHash))
        /\ IsLowerHex40(Text(store[i].tagHash))

-----------------------------------------------------------------------------
(* Two resolvers on one cache file refresh the same repository.            *)
(* inp[i] is the reference time of resolver i, out[i] where it is in        *)
(* updateCacheDB; both have fetched the same table. The transactions of     *)
(* the two take the database one at a time, in any order.                   *)

Racers == 1..2

\* Lifetimes that are not negative.
RaceTTLs == {b \in BaseTTLs : b >= 0}

InitRace ==
    /\ clock = MaxTime
    /\ ttl \in {NewCacheTTL(b) : b \in RaceTTLs}
    /\ fetched \in [RemoteTags -> AliasHashes]
    /\ remote = [r \in Repos |-> fetched]
    /\ store \in {<<>>, <<GitTag(RepoA, "v1", "v1", "c1", "t1", 0)>>}
    /\ store0 = store
    /\ pc = "idle"
    /\ call = Call("tag", RepoA, "v9", 0)
    /\ cursor = Len(TagOrder)
    /\ git = NoGit
    /\ result = NoResult
    /\ io = NoIO
    /\ prev = NoPrev
    /\ inp \in [Racers -> 0..MaxTime]
    /\ out = [i \in Racers |-> "update"]

\* The upsert transaction of resolver i.
RaceUpdate(i) ==
    /\ out[i] = "update"
    /\ \E ord1, ord2 \in Orders(DOMAIN fetched) :
          store' = UpsertAll(store, call.repo, ord2, fetched,
                             TTLMap(ord1, fetched, inp[i], ttl))
    /\ out' = [out EXCEPT ![i] = "prune"]
    /\ UNCHANGED <<World, pc, call, Scratch, result, io, store0, prev, inp>>

\* The prune of resolver i.
RacePrune(i) ==
    /\ out[i] = "prune"
    /\ store' = PruneRows(store, inp[i])
    /\ out' = [out EXCEPT ![i] = "done"]
    /\ UNCHANGED <<World, pc, call, Scratch, result, io, store0, prev, inp>>

NextRace == \E i \in Racers : RaceUpdate(i) \/ RacePrune(i)

SpecRace == InitRace /\ [][NextRace]_vars

BothRefreshed == \A i \in Racers : out[i] = "done"

\* The (repo, tag, commitHash, tagHash) of the rows of a store.
Keys(s) == {Fields(s[i]) : i \in 1..Len(s)}

\* The store after the refresh of one resolver alone, at reference time now.
SingleRefresh(now) ==
    LET ord == CHOOSE o \in Orders(DOMAIN fetched) : TRUE
    IN  PruneRows(UpsertAll(store0, call.repo, ord, fetched,
                            TTLMap(ord, fetched, now, ttl)), now)

\* One row for every fetched tag with the fetched hashes, and the rows of a
\* single refresh.
OneRowPerTag ==
    /\ \A tag \in DOMAIN fetched : Len(RowsOf(tag)) = 1
    /\ \E i \in Racers : Keys(store) = Keys(SingleRefresh(inp[i]))

\* The least lifetime a refresh gives a row.
MinTTL == Min(ttl.GitTagTTL, ttl.GitAliasTagTTL)

\* C26 as stated: after both refreshes the store has exactly one row for
\* every fetched tag, with the fetched hashes, as after a single refresh.
C26_RaceIdempotent == BothRefreshed => OneRowPerTag

\* C26: the same, when no row one resolver writes is expired at the
\* reference time of the other.
C26_RaceIdempotentWhileFresh ==
    (BothRefreshed /\ \A i, j \in Racers : inp[i] + MinTTL >= inp[j]) =>
        OneRowPerTag

\* Both resolvers are done, with different reference times, on a table with
\* an alias pair and a row that was there before.
C26_Witness ==
    /\ BothRefreshed /\ inp[1] # inp[2] /\ store0 # <<>>
    /\ \A i, j \in Racers : inp[i] + MinTTL >= inp[j]
    /\ \E tag \in DOMAIN fetched : IsAlias(tag)
    /\ Len(store) = Cardinality(DOMAIN fetched)

-----------------------------------------------------------------------------
(* Every call returns.                                                     *)

\* The statements of a running call. A call is one goroutine running
\* ResolveFromTagContext or ResolveFromHashContext from top to bottom: when
\* its next statement can run, it runs.
CallSteps ==
    \/ FirstLookup
    \/ FetchFirstPage
    \/ FetchNextPage
    \/ UpdateTx
    \/ PruneTx
    \/ SecondLookup
    \/ GitDescribe
    \/ resolveTagHashFromGitObj
    \/ resolveBaseTagFromGitObj
    \/ resolveCommitHashFromGitObj
    \/ WriteTx

\* Calls for a listed tag, for a tag and a hash that only the clone knows,
\* one after the other, while time passes.
NextLive ==
    \/ ResolveFromTagContext(RepoA, "v1")
    \/ ResolveFromTagContext(RepoA, "v1.1.0-1-gc3")
    \/ ResolveFromHashContext(RepoA, "c3")
    \/ CallSteps
    \/ Return
    \/ Tick

SpecLive == Init /\ [][NextLive]_vars /\ WF_vars(CallSteps)

Running == Resolving /\ pc \notin {"idle", "done"}

\* C27: every resolve call returns, after at most two lookups of the store.
C27_Terminates ==
    /\ [](Resolving => io.reads <= 2)
    /\ Running ~> (pc = "done")

\* A call has returned the entry of the fallback after two misses.
C27_Witness ==
    /\ Resolving /\ pc = "done" /\ result.err = ""
    /\ io.reads = 2 /\ io.gits = GitOpsOf(call.op) /\ io.writes = 3

-----------------------------------------------------------------------------
(* What a hit of the hash lookup returns.                                  *)

\* The rows of the repository of the call that carry its hash, as commit
\* or as tag object, and are fresh at its reference time.
FreshMatches ==
    SelectSeq(store, LAMBDA r :
        /\ r.repo = call.repo
        /\ (r.commitHash = call.arg \/ r.tagHash = call.arg)
        /\ r.expiresAt >= call.now)

\* C28: a cache hit of a hash call returns every fresh row of the repository
\* whose commitHash or tagHash is the hash: each of several tags on one
\* commit is in the result.
C28_HitReturnsAllMatches ==
    (CacheHit /\ call.op = "hash") =>
        \A i \in 1..Len(FreshMatches) :
            \E j \in 1..Len(result.rows) : result.rows[j] = FreshMatches[i]

\* A hit on the first lookup with two tags of one commit.
C28_Witness ==
    /\ CacheHit /\ call.op = "hash" /\ io.reads = 1
    /\ Len(FreshMatches) >= 2
    /\ FreshMatches[1].tag # FreshMatches[2].tag

-----------------------------------------------------------------------------
(* What FetchTagAndOID returns.                                            *)

\* The tags the remote lists up to the cursor.
ListedUpTo(repo, cur) ==
    {TagOrder[i] : i \in 1..cur} \cap DOMAIN remote[repo]

FetchErrors == {"error fetching tag and oid", "invalid SHA"}

\* C29: the fetch asks for the pages one after the other, each from the end
\* cursor of the one before, as long as the remote has a next page; the map
\* it returns has every tag of every page, with the hashes of its node; and
\* a failed page or an invalid commit path ends the call with the error and
\* with no map: nothing is written.
C29_EveryPage ==
    Resolving =>
        /\ pc = "fetchNext" =>
              /\ DOMAIN fetched = ListedUpTo(call.repo, cursor)
              /\ Cardinality(DOMAIN fetched) =
                    io.pages * Min(PageLen, maxPageSize)
              /\ HasNextPage(call.repo, cursor - 1)
        /\ pc = "update" =>
              /\ DOMAIN fetched = DOMAIN remote[call.repo]
              /\ io.pages = PagesOf(call.repo)
              /\ \A t \in DOMAIN fetched :
                    /\ IsSHA(Text(fetched[t].CommitHash))
                    /\ t # "v1" => fetched[t] = remote[call.repo][t]
        /\ result.err \in FetchErrors =>
              /\ pc = "done" /\ fetched = NoMap
              /\ store = store0 /\ io.writes = 0

\* A listing of two pages has been fetched whole.
C29_Witness ==
    /\ Resolving /\ pc = "update"
    /\ io.pages >= 2
    /\ Cardinality(DOMAIN fetched) = io.pages * Min(PageLen, maxPageSize)

-----------------------------------------------------------------------------
(* The lookup of a fetched tag right after the refresh.                    *)

\* The lookup by tag, at the reference time of the refresh, gives a row with
\* the hashes fetched for the tag.
LooksUpFetched(tag) ==
    LET rows == lookupByTag(store, call.repo, tag, call.now)
    IN  /\ rows # <<>>
        /\ rows[1].commitHash = fetched[tag].CommitHash
        /\ rows[1].tagHash = fetched[tag].TagHash

\* C30: right after a bulk refresh at now, under lifetimes that are not
\* negative, the lookup by tag at now gives for every fetched tag an entry
\* with the fetched commitHash and tagHash, whatever rows the store had for
\* the tag before.
C30_LookupAfterRefresh ==
    (Refreshed /\ MinTTL >= 0) =>
        \A tag \in DOMAIN fetched : LooksUpFetched(tag)

-----------------------------------------------------------------------------
(* Freshness and expiry.                                                   *)

\* The lookup by tag at asOf, on a store that holds the entry alone, returns
\* the entry.
FreshAt(r, asOf) == lookupByTag(<<r>>, r.repo, r.tag, asOf) = <<r>>

Pruned == pc = "done" /\ call.op = "prune"

\* C31: the rows PruneCache(t) keeps are exactly the rows a lookup at
\* asOf = t returns as fresh, and the rows it deletes are exactly the others;
\* a row with expiresAt = t is fresh and is kept.
C31_FreshOrPruned ==
    Pruned =>
        /\ store = SelectSeq(store0, LAMBDA r : FreshAt(r, call.now))
        /\ \A i \in 1..Len(store0) :
              /\ FreshAt(store0[i], call.now) <=> ~whereExpired(store0[i], call.now)
              /\ store0[i].expiresAt = call.now =>
                    /\ FreshAt(store0[i], call.now)
                    /\ \E j \in 1..Len(store) : store[j] = store0[i]

\* A prune whose threshold is the expiry of one row and later than that of
\* another.
C31_Witness ==
    /\ Pruned /\ store # <<>> /\ Len(store) < Len(store0)
    /\ \E i \in 1..Len(store0) : store0[i].expiresAt = call.now
    /\ \E i \in 1..Len(store0) : store0[i].expiresAt < call.now

-----------------------------------------------------------------------------
(* One reference time for the whole call.                                  *)

\* C32: the refresh of a call does not prune a row it has just written, and
\* the re-read at the reference time of the call finds a row of every
\* fetched tag, for every lifetime the parser accepts and however the time
\* has moved on during the fetch.
C32_RefreshKeepsItsRows ==
    Refreshed =>
        \A tag \in DOMAIN fetched :
            /\ RowsOf(tag) # <<>>
            /\ lookupByTag(store, call.repo, tag, call.now) # <<>>

-----------------------------------------------------------------------------
(* Lookups and refreshes on a store that two repositories share.           *)

Resolved == Resolving /\ pc = "done" /\ result.err = ""

\* C33: a resolve call for a repository returns entries of that repository
\* only, also when the store has an entry of another repository with the
\* same tag, the same commitHash or the same tagHash.
C33_OwnRepositoryOnly ==
    Resolved => \A i \in 1..Len(result.rows) : result.rows[i].repo = call.repo

\* A call was answered from the cache while the other repository had a
\* fresh row with the tag and the hashes of the answer.
C33_Witness ==
    /\ Resolved /\ CacheHit /\ result.rows # <<>>
    /\ \E i \in 1..Len(store) :
          /\ store[i].repo # call.repo
          /\ store[i].expiresAt >= call.now
          /\ store[i].tag = result.rows[1].tag
          /\ store[i].commitHash = result.rows[1].commitHash
          /\ store[i].tagHash = result.rows[1].tagHash
          /\ call.arg \in {store[i].tag, store[i].commitHash, store[i].tagHash}

\* The rows of the repositories other than that of the call.
OtherRows(s) == SelectSeq(s, LAMBDA r : r.repo # call.repo)

\* C34: the upserts of a bulk refresh leave every row of another repository
\* as it was, and the prune that follows removes of these rows exactly those
\* with expiresAt earlier than the reference time of the refresh.
C34_OtherRepositoriesKept ==
    Resolving =>
        /\ pc = "prune" => OtherRows(store) = OtherRows(store0)
        /\ pc = "lookup2" =>
              OtherRows(store) =
                  SelectSeq(OtherRows(store0),
                            LAMBDA r : r.expiresAt >= call.now)

\* A refresh has written v1 next to a row of the other repository with the
\* same tag and hashes, which it has kept.
C34_Witness ==
    /\ Refreshed /\ "v1" \in DOMAIN fetched /\ RowsOf("v1") # <<>>
    /\ \E i \in 1..Len(OtherRows(store)) :
          /\ OtherRows(store)[i].tag = "v1"
          /\ OtherRows(store)[i].commitHash = fetched["v1"].CommitHash
          /\ OtherRows(store)[i].tagHash = fetched["v1"].TagHash

-----------------------------------------------------------------------------
(* A tag or a hash that nobody knows.                                      *)

\* The rows of a store that carry the argument of the call, fresh or not.
RowsFor(s) ==
    SelectSeq(s, LAMBDA r :
        /\ r.repo = call.repo
        /\ IF call.op = "tag" THEN r.tag = call.arg
           ELSE call.arg \in {r.commitHash, r.tagHash})

\* The argument is valid, and neither the listing of the remote, nor the
\* clone, nor the store at the start of the call knows it.
UnknownArg ==
    /\ RowsFor(store0) = <<>>
    /\ IF call.op = "tag"
       THEN /\ call.arg # ""
            /\ call.arg \notin DOMAIN remote[call.repo]
            /\ RevParse(call.arg) = ""
       ELSE /\ IsSHA(Text(call.arg))
            /\ Describe(call.arg) = ""
            /\ \A t \in DOMAIN fetched :
                  call.arg \notin {fetched[t].CommitHash, fetched[t].TagHash}

\* C35: a call for an unknown tag or hash returns an error; unless the fetch
\* or the transaction of the refresh has failed, it has fetched the whole
\* listing and has missed twice before its first git operation fails; and
\* the store has no row for the tag or hash afterwards.
C35_NoNegativeCaching ==
    (Resolving /\ pc = "done" /\ UnknownArg) =>
        /\ result.err \in {"git", "failed to update the database"}
                          \cup FetchErrors
        /\ result.err = "git" =>
              /\ io.pages = PagesOf(call.repo)
              /\ io.reads = 2 /\ io.gits = 1
        /\ RowsFor(store) = <<>>

\* A call for an unknown hash has refreshed a store that was not empty and
\* has failed in git.
C35_Witness ==
    /\ Resolving /\ pc = "done" /\ UnknownArg /\ call.op = "hash"
    /\ result.err = "git" /\ io.pages = PagesOf(call.repo)
    /\ store0 # <<>> /\ store # <<>>

-----------------------------------------------------------------------------
(* The entries of a hash call carry the hash.                              *)

\* C36: every entry a successful hash call returns has the hash of the call
\* as its commitHash or as its tagHash, whether the entries come from the
\* store or the entry was built by the git fallback.
C36_ResultCarriesHash ==
    (Resolved /\ call.op = "hash") =>
        /\ result.rows # <<>>
        /\ \A i \in 1..Len(result.rows) :
              call.arg \in {result.rows[i].commitHash, result.rows[i].tagHash}

\* The fallback has resolved a commit that is one past the nearest tag.
C36_Witness ==
    /\ Resolved /\ call.op = "hash" /\ io.gits = GitOpsOf("hash")
    /\ result.rows[1].tag # result.rows[1].baseTag
    /\ result.rows[1].commitHash = call.arg

-----------------------------------------------------------------------------
(* The order of the derived lifetimes.                                     *)

\* x <= y for natural numbers in limbs of one length.
RECURSIVE LeNat(_, _)
LeNat(x, y) ==
    IF x = <<>> THEN TRUE
    ELSE \/ x[Len(x)] < y[Len(y)]
         \/ /\ x[Len(x)] = y[Len(y)]
            /\ LeNat(SubSeq(x, 1, Len(x) - 1), SubSeq(y, 1, Len(y) - 1))

\* x <= y in int64.
Le64(x, y) ==
    IF IsNeg64(x) # IsNeg64(y) THEN IsNeg64(x) ELSE LeNat(x, y)

\* C37: for every base duration that is not negative the four lifetimes are
\* not negative and gitAliasTagTTL <= queryTTL <= gitTagTTL <= gitFileTTL,
\* in int64 arithmetic.
C37_OrderedTTLs ==
    (out # NoTTL /\ ~IsNeg64(inp)) =>
        /\ ~IsNeg64(out.GitAliasTagTTL) /\ ~IsNeg64(out.QueryTTL)
        /\ ~IsNeg64(out.GitTagTTL) /\ ~IsNeg64(out.GitFileTTL)
        /\ Le64(out.GitAliasTagTTL, out.QueryTTL)
        /\ Le64(out.QueryTTL, out.GitTagTTL)
        /\ Le64(out.GitTagTTL, out.GitFileTTL)

====
